---- MODULE Spec2Model ----
(***************************************************************************)
(* Model of the Excel validator (src/main.py): the format classifier       *)
(* get_excel_format_type, the value normaliser                             *)
(* normalize_value_for_comparison, the reconciliation engine               *)
(* compare_excel_files and the Streamlit "Run Validation" handler that     *)
(* stores its result in st.session_state.                                  *)
(*                                                                         *)
(* Text is modelled as a sequence of characters, a character being a       *)
(* one-character string or, outside ASCII, the name of its code point      *)
(* ("U+20AC" is the euro sign).                                            *)
(***************************************************************************)
EXTENDS Integers, Sequences, FiniteSets, TLC

VARIABLES
    session,    \* st.session_state: [ran, results]
    pc,         \* where the script is: "idle", "loop" (for sheet_name ...), "scan" (the cell loops)
    results,    \* compare_excel_files' local dict: sheet name -> list of records
    todo,       \* the sheets of sheets_to_process not yet visited
    cur,        \* the sheet being scanned, the loop indices c, r, and (history) the
                \* cells read and the cells read whose template value is not blank
    sheets,     \* sheets_to_process of the run
    failed,     \* history: the sheets of the run whose processing raised, each with
                \* the number of records it had when it did
    scanned,    \* cells read by the scans since the script started
    probe       \* a call of one of the helpers on its own: its name, arguments, result

vars == <<session, pc, results, todo, cur, sheets, failed, scanned, probe>>

-----------------------------------------------------------------------------
(* Bounds of the model *)

\* longest cell text (in characters) given to the helpers on their own
MaxLen == 3
\* most tokens a format string is made of when the classifier is run on its own
MaxTokens == 3
\* widest template sheet, in columns
MaxCol == 2
\* cells the scans of one session may read in all
MaxCells == 4

\* the header row: range(3, num_rows + 1), cell(row=3, ...), r == 3
HeaderRow == 3

-----------------------------------------------------------------------------
(* Text helpers: what Python's str methods and re.sub do *)

RECURSIVE SeqsUpTo(_, _)
SeqsUpTo(S, n) ==
    IF n = 0 THEN {<<>>}
    ELSE LET shorter == SeqsUpTo(S, n - 1)
         IN shorter \cup {Append(s, x) : s \in {q \in shorter : Len(q) = n - 1}, x \in S}

\* `sub in s` for strings
Contains(s, sub) ==
    \E i \in 1..(Len(s) - Len(sub) + 1) : SubSeq(s, i, i + Len(sub) - 1) = sub

IsSpace(ch) == ch \in {" ", "\t", "\n"}

LowerChar(ch) ==
    CASE ch = "A" -> "a"
      [] ch = "D" -> "d"
      [] ch = "G" -> "g"
      [] ch = "M" -> "m"
      [] ch = "Y" -> "y"
      [] ch = "U+00C2" -> "U+00E2"
      [] OTHER -> ch

\* str.lower()
Lower(s) == [i \in 1..Len(s) |-> LowerChar(s[i])]

\* str.strip(): leading and trailing whitespace removed
RECURSIVE LStrip(_)
LStrip(s) == IF s # <<>> /\ IsSpace(Head(s)) THEN LStrip(Tail(s)) ELSE s

RECURSIVE RStrip(_)
RStrip(s) ==
    IF s # <<>> /\ IsSpace(s[Len(s)]) THEN RStrip(SubSeq(s, 1, Len(s) - 1)) ELSE s

Strip(s) == RStrip(LStrip(s))

\* re.sub(r'\s+', '', s): every run of whitespace removed
RemoveWhitespace(s) == SelectSeq(s, LAMBDA ch : ~IsSpace(ch))

-----------------------------------------------------------------------------
(* Cell values: None, str, int, float, bool, datetime.                     *)
(* A float is m / 10^e with no trailing zero in its fraction; a datetime   *)
(* is midnight of day m of January 2024, m in 1..9.                        *)

NoneV == [t |-> "none", s |-> <<>>, m |-> 0, e |-> 0]
StrV(s) == [t |-> "str", s |-> s, m |-> 0, e |-> 0]
IntV(n) == [t |-> "int", s |-> <<>>, m |-> n, e |-> 0]
BoolV(b) == [t |-> "bool", s |-> <<>>, m |-> IF b THEN 1 ELSE 0, e |-> 0]
DateV(d) == [t |-> "date", s |-> <<>>, m |-> d, e |-> 0]

RECURSIVE FloatV(_, _)
FloatV(m, e) ==
    IF e > 0 /\ m % 10 = 0 THEN FloatV(m \div 10, e - 1)
    ELSE [t |-> "float", s |-> <<>>, m |-> m, e |-> e]

IsNumber(v) == v.t \in {"int", "float", "bool"}

\* Python's ==: int, float and bool compare by numeric value (True == 1),
\* strings by content, and values of unrelated types are unequal
PyEq(a, b) ==
    IF IsNumber(a) /\ IsNumber(b) THEN a.m = b.m /\ a.e = b.e
    ELSE a = b

Digits == {"0", "1", "2", "3", "4", "5", "6", "7", "8", "9"}

DigitValue(ch) ==
    CASE ch = "0" -> 0 [] ch = "1" -> 1 [] ch = "2" -> 2 [] ch = "3" -> 3
      [] ch = "4" -> 4 [] ch = "5" -> 5 [] ch = "6" -> 6 [] ch = "7" -> 7
      [] ch = "8" -> 8 [] ch = "9" -> 9

DigitChar(n) == CHOOSE ch \in Digits : DigitValue(ch) = n

AllDigits(s) == \A i \in 1..Len(s) : s[i] \in Digits

RECURSIVE DigitsValue(_)
DigitsValue(s) ==
    IF s = <<>> THEN 0
    ELSE 10 * DigitsValue(SubSeq(s, 1, Len(s) - 1)) + DigitValue(s[Len(s)])

HasSign(s) == s # <<>> /\ Head(s) \in {"+", "-"}
Unsigned(s) == IF HasSign(s) THEN Tail(s) ELSE s
SignOf(s) == IF s # <<>> /\ Head(s) = "-" THEN -1 ELSE 1

\* int(s) succeeds on a text without whitespace: an optional sign, then digits
IntParses(s) == Unsigned(s) # <<>> /\ AllDigits(Unsigned(s))

PointAt(s) == CHOOSE i \in 1..Len(s) : s[i] = "."

\* float(s) succeeds on a text without whitespace that holds a '.': an optional
\* sign, digits, one point, digits, with a digit on at least one side
FloatParses(s) ==
    LET u == Unsigned(s)
    IN /\ Contains(u, <<".">>)
       /\ LET p == PointAt(u)
              whole == SubSeq(u, 1, p - 1)
              frac == SubSeq(u, p + 1, Len(u))
          IN AllDigits(whole) /\ AllDigits(frac) /\ Len(whole) + Len(frac) > 0

ParseFloat(s) ==
    LET u == Unsigned(s)
        p == PointAt(u)
        whole == SubSeq(u, 1, p - 1)
        frac == SubSeq(u, p + 1, Len(u))
    IN FloatV(SignOf(s) * DigitsValue(whole \o frac), Len(frac))

RECURSIVE NatStr(_)
NatStr(n) == IF n < 10 THEN <<DigitChar(n)>> ELSE Append(NatStr(n \div 10), DigitChar(n % 10))

RECURSIVE Pow10(_)
Pow10(e) == IF e = 0 THEN 1 ELSE 10 * Pow10(e - 1)

RECURSIVE ZeroPad(_, _)
ZeroPad(s, n) == IF Len(s) >= n THEN s ELSE ZeroPad(<<"0">> \o s, n)

\* str(value), for None, text, booleans, datetimes and the non-negative numbers
PyStr(v) ==
    CASE v.t = "none" -> <<"N", "o", "n", "e">>
      [] v.t = "str" -> v.s
      [] v.t = "int" -> NatStr(v.m)
      [] v.t = "bool" -> IF v.m = 1 THEN <<"T", "r", "u", "e">> ELSE <<"F", "a", "l", "s", "e">>
      [] v.t = "float" ->
            NatStr(v.m \div Pow10(v.e)) \o <<".">> \o
            (IF v.e = 0 THEN <<"0">> ELSE ZeroPad(NatStr(v.m % Pow10(v.e)), v.e))
      [] v.t = "date" ->
            <<"2", "0", "2", "4", "-", "0", "1", "-", "0">> \o NatStr(v.m)
                \o <<" ", "0", "0", ":", "0", "0", ":", "0", "0">>

-----------------------------------------------------------------------------
(* normalize_value_for_comparison *)

\* cleaned_value = value.strip().lower(); re.sub(r'\s+', '', cleaned_value)
CleanedValue(s) == RemoveWhitespace(Lower(Strip(s)))

\* the try block: float() when the text holds a '.', int() otherwise, and the
\* cleaned text itself when the conversion raises ValueError
ParseCleaned(cleaned) ==
    IF Contains(cleaned, <<".">>)
    THEN IF FloatParses(cleaned) THEN ParseFloat(cleaned) ELSE StrV(cleaned)
    ELSE IF IntParses(cleaned)
         THEN IntV(SignOf(cleaned) * DigitsValue(Unsigned(cleaned)))
         ELSE StrV(cleaned)

\* a slip in the order of the steps: the number is parsed before the inner
\* whitespace is removed
NormalizeParseFirst(value) ==
    IF value.t = "str"
    THEN LET stripped == Lower(Strip(value.s))
             parsed == ParseCleaned(stripped)
         IN IF parsed.t = "str" THEN StrV(RemoveWhitespace(stripped)) ELSE parsed
    ELSE value

normalize_value_for_comparison(value) ==
    IF value.t = "str" THEN ParseCleaned(CleanedValue(value.s)) ELSE value

-----------------------------------------------------------------------------
(* get_excel_format_type *)

\* the list of line 17 as the file holds it: '$' and four texts of two or three
\* characters each (the UTF-8 bytes of the euro, pound, yen and rupee signs read
\* as Windows-1252)
CurrencyNeedles ==
    { <<"$">>,
      <<"U+00E2", "U+201A", "U+00AC">>,
      <<"U+00C2", "U+00A3">>,
      <<"U+00C2", "U+00A5">>,
      <<"U+00E2", "U+201A", "U+00B9">> }

get_excel_format_type(number_format) ==
    IF number_format = <<>> THEN "General"
    ELSE LET fmt == Lower(number_format)
         IN CASE Contains(fmt, <<"_", "(">>) /\ Contains(fmt, <<"*">>) /\ Contains(fmt, <<")">>)
                    -> "Accounting"
              [] Contains(fmt, <<"y", "y">>) \/ Contains(fmt, <<"m", "m">>)
                    \/ Contains(fmt, <<"d", "d">>) -> "Date"
              [] Contains(fmt, <<"%">>) -> "Percentage"
              [] \E needle \in CurrencyNeedles : Contains(fmt, needle) -> "Currency"
              [] Contains(fmt, <<"0">>) \/ Contains(fmt, <<"#">>) -> "Numeric"
              [] fmt = <<"@">> -> "Text"
              [] fmt = <<"g", "e", "n", "e", "r", "a", "l">> -> "General"
              [] OTHER -> "Other"

-----------------------------------------------------------------------------
(* The workbooks the engine is run on *)

\* input_wb_val.sheetnames
TemplateSheetLists == {<<"Data">>, <<"Data", "Notes">>}

\* what a template cell may hold: nothing, a whitespace-only text, a text
TemplateValues == {NoneV, StrV(<<" ">>), StrV(<<"5", ".", "0">>)}

\* what an output cell may hold
OutputValues == {NoneV, IntV(5)}

\* number_format of a template cell and of an output cell
TemplateFormats == {<<"0", "%">>}
OutputFormats == {<<"0", "%">>, <<"G", "e", "n", "e", "r", "a", "l">>}

\* a template cell with nothing to compare: null, or a text that is empty or
\* whitespace only
Blank(v) == v.t = "none" \/ (v.t = "str" /\ \A i \in 1..Len(v.s) : IsSpace(v.s[i]))

-----------------------------------------------------------------------------
(* compare_excel_files: the body of the cell loops *)

EmptyDict == <<>>

SheetMissingText ==
    <<"N", "/", "A", " ", "(", "S", "h", "e", "e", "t", " ",
      "M", "i", "s", "s", "i", "n", "g", ")">>

\* f"Col_{c}"
ColLabel(c) == StrV(<<"C", "o", "l", "_">> \o NatStr(c))

\* headers.get(c, f"Col_{c}"): headers has a key for every column of the sheet
\* (line 58), with the value None where row 3 is empty
FieldOf(headers, c) == IF c \in DOMAIN headers THEN headers[c] ELSE ColLabel(c)

\* the test of lines 65 and 87 without its .strip()
TemplateIsBlankNoStrip(t_val) == t_val.t = "none" \/ PyStr(t_val) = <<>>

\* t_val is None or str(t_val).strip() == ''   (lines 65 and 87)
TemplateIsBlank(t_val) == t_val.t = "none" \/ Strip(PyStr(t_val)) = <<>>

\* lines 86-87: the cells of a sheet present in the output that get no record
SkipsCell(t_val, o_val) ==
    \/ t_val.t = "none" /\ o_val.t = "none"
    \/ TemplateIsBlank(t_val)

\* line 95, comparing the raw values
ValuesMatchRaw(t_val, o_val) == PyEq(t_val, o_val)

\* line 95: is_match
ValuesMatch(t_val, o_val) ==
    PyEq(normalize_value_for_comparison(t_val), normalize_value_for_comparison(o_val))

\* lines 66-72 with the header rule of lines 99-100 applied to them
MissingRecordHeaderNA(sheet_name, headers, c, r, t_val) ==
    [ SHEET |-> sheet_name, col |-> c, row |-> r,
      FIELD |-> FieldOf(headers, c),
      EXPECTED |-> PyStr(t_val), TEST |-> SheetMissingText,
      dtype_res |-> IF r = HeaderRow THEN "N/A" ELSE "Wrong",
      dtype_reason |-> <<"Sheet not in output", sheet_name>>,
      val_res |-> "Wrong", val_reason |-> <<"Sheet not in output", sheet_name>> ]

\* lines 66-72: the record of a cell of a sheet that is not in the output
MissingRecord(sheet_name, headers, c, r, t_val) ==
    [ SHEET |-> sheet_name, col |-> c, row |-> r,
      FIELD |-> FieldOf(headers, c),
      EXPECTED |-> PyStr(t_val), TEST |-> SheetMissingText,
      dtype_res |-> "Wrong", dtype_reason |-> <<"Sheet not in output", sheet_name>>,
      val_res |-> "Wrong", val_reason |-> <<"Sheet not in output", sheet_name>> ]

\* lines 89-108 without the override of lines 99-100
CellRecordNoHeaderOverride(sheet_name, headers, c, r, t_val, o_val, t_fmt, o_fmt) ==
    LET t_type == get_excel_format_type(t_fmt)
        o_type == get_excel_format_type(o_fmt)
        is_match == ValuesMatch(t_val, o_val)
    IN [ SHEET |-> sheet_name, col |-> c, row |-> r,
         FIELD |-> FieldOf(headers, c),
         EXPECTED |-> PyStr(t_val), TEST |-> PyStr(o_val),
         dtype_res |-> IF t_type = o_type THEN "Correct" ELSE "Wrong",
         dtype_reason |-> IF t_type = o_type THEN <<"Data types match">>
                          ELSE <<"Template type is", t_type, "but output is", o_type>>,
         val_res |-> IF is_match THEN "Correct" ELSE "Wrong",
         val_reason |-> IF is_match THEN "Values match" ELSE "The template value/the output has" ]

\* lines 89-108: the record of a cell of a sheet present in both workbooks.
\* CELL is the pair col, row; the text of a value mismatch (line 81) quotes
\* str(t_val) and str(o_val), which the record holds as EXPECTED and TEST
CellRecord(sheet_name, headers, c, r, t_val, o_val, t_fmt, o_fmt) ==
    LET t_type == get_excel_format_type(t_fmt)
        o_type == get_excel_format_type(o_fmt)
        is_dtype_match == t_type = o_type
        is_match == ValuesMatch(t_val, o_val)
    IN [ SHEET |-> sheet_name, col |-> c, row |-> r,
         FIELD |-> FieldOf(headers, c),
         EXPECTED |-> PyStr(t_val), TEST |-> PyStr(o_val),
         dtype_res |-> IF r = HeaderRow THEN "N/A"
                       ELSE IF is_dtype_match THEN "Correct" ELSE "Wrong",
         dtype_reason |-> IF r = HeaderRow THEN <<"Header row - no type check">>
                          ELSE IF is_dtype_match THEN <<"Data types match">>
                          ELSE <<"Template type is", t_type, "but output is", o_type>>,
         val_res |-> IF is_match THEN "Correct" ELSE "Wrong",
         val_reason |-> IF is_match THEN "Values match" ELSE "The template value/the output has" ]

-----------------------------------------------------------------------------
(* compare_excel_files: the loops *)

NoSheet ==
    [ name |-> "", num_cols |-> 0, num_rows |-> 0, headers |-> <<>>,
      missing |-> FALSE, c |-> 0, r |-> 0, seen |-> {}, nonblank |-> {} ]

\* the scan with the loops exchanged: rows outside, columns inside
AdvanceRowMajor(sh) ==
    IF sh.c < sh.num_cols THEN [sh EXCEPT !.c = sh.c + 1]
    ELSE IF sh.r < sh.num_rows THEN [sh EXCEPT !.c = 1, !.r = sh.r + 1]
    ELSE [sh EXCEPT !.c = 0, !.r = 0]

\* for c in range(1, num_cols + 1): for r in range(3, num_rows + 1): the indices
\* of the next iteration, or c = r = 0 when both loops are over
Advance(sh) ==
    IF sh.r < sh.num_rows THEN [sh EXCEPT !.r = sh.r + 1]
    ELSE IF sh.c < sh.num_cols THEN [sh EXCEPT !.c = sh.c + 1, !.r = HeaderRow]
    ELSE [sh EXCEPT !.c = 0, !.r = 0]

ScanOver(sh) == sh.c = 0

\* results[sheet_name].append(record)
AppendRecord(res, sheet_name, rec) == [res EXCEPT ![sheet_name] = Append(@, rec)]

\* cells in the range of the cell loops of a sheet
CellsInRange(nc, nr) == IF nr >= HeaderRow THEN nc * (nr - HeaderRow + 1) ELSE 0

FreshSession == [ran |-> FALSE, results |-> EmptyDict]

NoProbe == [fn |-> "none", done |-> FALSE]

Init ==
    /\ session = FreshSession
    /\ pc = "idle"
    /\ results = EmptyDict
    /\ todo = <<>>
    /\ cur = NoSheet
    /\ sheets = <<>>
    /\ failed = <<>>
    /\ scanned = 0
    /\ probe = NoProbe

\* "Run Validation" with a file openpyxl cannot load: compare_excel_files
\* returns {} (line 49), and lines 172-173 store it and set ran
LoadFailure ==
    /\ pc = "idle"
    /\ session' = [ran |-> TRUE, results |-> EmptyDict]
    /\ UNCHANGED <<pc, results, todo, cur, sheets, failed, scanned, probe>>

\* "Run Validation" with two loadable workbooks: lines 41-51
LoadWorkbooks ==
    /\ pc = "idle"
    /\ scanned < MaxCells
    /\ \E names \in TemplateSheetLists :
          /\ sheets' = names
          /\ todo' = names
    /\ results' = EmptyDict
    /\ failed' = <<>>
    /\ cur' = NoSheet
    /\ pc' = "loop"
    /\ UNCHANGED <<session, scanned, probe>>

\* lines 53-60 and 75-77: the next sheet, its extents, its headers, and whether
\* the output has it
BeginSheet ==
    /\ pc = "loop"
    /\ todo # <<>>
    /\ \E nc \in 1..MaxCol, nr \in (HeaderRow - 1)..(HeaderRow - 1 + MaxCells), miss \in BOOLEAN :
          /\ scanned + CellsInRange(nc, nr) <= MaxCells
          /\ \E hd \in [1..nc -> TemplateValues] :
                LET sh == [ name |-> Head(todo), num_cols |-> nc, num_rows |-> nr,
                            headers |-> hd, missing |-> miss,
                            c |-> 1, r |-> HeaderRow, seen |-> {}, nonblank |-> {} ]
                IN /\ cur' = IF nr >= HeaderRow THEN sh ELSE [sh EXCEPT !.c = 0, !.r = 0]
                   /\ pc' = IF nr >= HeaderRow THEN "scan" ELSE "loop"
          /\ scanned' = scanned + CellsInRange(nc, nr)
    /\ results' = (Head(todo) :> <<>>) @@ results
    /\ todo' = Tail(todo)
    /\ UNCHANGED <<session, sheets, failed, probe>>

\* the template value of the cell the loops are at: row 3 is the row the
\* headers were read from
TemplateReads(sh) == IF sh.r = HeaderRow THEN {sh.headers[sh.c]} ELSE TemplateValues

\* history: the cells read so far, and those of them whose template value is
\* not blank
Noted(sh, t_val) ==
    [sh EXCEPT !.seen = @ \cup {<<sh.c, sh.r>>},
               !.nonblank = IF Blank(t_val) THEN @ ELSE @ \cup {<<sh.c, sh.r>>}]

AfterCell(sh) ==
    /\ cur' = Advance(sh)
    /\ pc' = IF ScanOver(Advance(sh)) THEN "loop" ELSE "scan"

\* lines 62-72: one iteration of the loops of a sheet the output lacks
ScanMissingCell ==
    /\ pc = "scan"
    /\ cur.missing
    /\ \E t_val \in TemplateReads(cur) :
          /\ results' = IF TemplateIsBlank(t_val) THEN results
                        ELSE AppendRecord(results, cur.name,
                                 MissingRecord(cur.name, cur.headers, cur.c, cur.r, t_val))
          /\ AfterCell(Noted(cur, t_val))
    /\ UNCHANGED <<session, todo, sheets, failed, scanned, probe>>

\* lines 83-108: one iteration of the loops of a sheet present in both workbooks
ScanCell ==
    /\ pc = "scan"
    /\ ~cur.missing
    /\ \E t_val \in TemplateReads(cur), o_val \in OutputValues,
          t_fmt \in TemplateFormats, o_fmt \in OutputFormats :
          /\ results' = IF SkipsCell(t_val, o_val) THEN results
                        ELSE AppendRecord(results, cur.name,
                                 CellRecord(cur.name, cur.headers, cur.c, cur.r,
                                            t_val, o_val, t_fmt, o_fmt))
          /\ AfterCell(Noted(cur, t_val))
    /\ UNCHANGED <<session, todo, sheets, failed, scanned, probe>>

\* lines 109-111: reading a cell of the sheet raises (the value, format or
\* coordinate of a cell of the output or of the template's format workbook);
\* the handler warns and goes on with the next sheet, and results[sheet_name]
\* stays as it is
SheetError ==
    /\ pc = "scan"
    /\ ~cur.missing
    /\ failed' = (cur.name :> Len(results[cur.name])) @@ failed
    /\ pc' = "loop"
    /\ UNCHANGED <<session, results, todo, cur, sheets, scanned, probe>>

\* line 112 and lines 172-173: the loop over the sheets is over
ReturnResults ==
    /\ pc = "loop"
    /\ todo = <<>>
    /\ session' = [ran |-> TRUE, results |-> results]
    /\ pc' = "idle"
    /\ results' = EmptyDict
    /\ cur' = NoSheet
    /\ sheets' = <<>>
    /\ failed' = <<>>
    /\ UNCHANGED <<todo, scanned, probe>>

Rows(res) == UNION {{res[s][i] : i \in 1..Len(res[s])} : s \in DOMAIN res}

\* line 198: the download button is shown when the stored results hold a row,
\* and its on_click clears the session, which lines 165-166 then set anew
DownloadReport ==
    /\ pc = "idle"
    /\ session.ran
    /\ Rows(session.results) # {}
    /\ session' = FreshSession
    /\ UNCHANGED <<pc, results, todo, cur, sheets, failed, scanned, probe>>

Next ==
    \/ LoadFailure
    \/ LoadWorkbooks
    \/ BeginSheet
    \/ ScanMissingCell
    \/ ScanCell
    \/ SheetError
    \/ ReturnResults
    \/ DownloadReport

Spec == Init /\ [][Next]_vars

\* one reconciliation run: the first click on Run Validation of a session, up
\* to the return of compare_excel_files
NextRun ==
    \/ ~session.ran /\ LoadFailure
    \/ ~session.ran /\ LoadWorkbooks
    \/ BeginSheet
    \/ ScanMissingCell
    \/ ScanCell
    \/ SheetError
    \/ ReturnResults

SpecRun == Init /\ [][NextRun]_vars

-----------------------------------------------------------------------------
(* The helpers run on their own, over every input up to the bounds *)

EngineIdle ==
    /\ session = FreshSession
    /\ pc = "idle"
    /\ results = EmptyDict
    /\ todo = <<>>
    /\ cur = NoSheet
    /\ sheets = <<>>
    /\ failed = <<>>
    /\ scanned = 0

EngineVars == <<session, pc, results, todo, cur, sheets, failed, scanned>>

\* the characters cell texts are made of
ValueChars == {" ", "5", "0", ".", "A", "a", "-"}

Texts == SeqsUpTo(ValueChars, MaxLen)

\* every kind of cell value: text, None, int, float, bool, datetime
ProbeValues ==
    {StrV(s) : s \in Texts}
        \cup {NoneV, IntV(0), IntV(5), FloatV(5, 0), FloatV(5, 1),
              BoolV(TRUE), BoolV(FALSE), DateV(1)}

\* the text "5", "5.0", " 5 " and the numbers 5 and 5.0
FiveForms ==
    {StrV(<<"5">>), StrV(<<"5", ".", "0">>), StrV(<<" ", "5", " ">>), IntV(5), FloatV(5, 0)}

\* the output values a template value is compared with
CompareValues ==
    FiveForms \cup {NoneV, StrV(<<"a">>), StrV(<<"A", " ">>), StrV(<<"0", "5">>), BoolV(TRUE)}

ProbeFormats == {<<>>, <<"0", "%">>}

InitNormalize ==
    /\ EngineIdle
    /\ \E x \in ProbeValues :
          probe = [fn |-> "normalize", in |-> x, out |-> NoneV, again |-> NoneV, done |-> FALSE]

\* normalize_value_for_comparison(x), and the same on its result
ProbeNormalize ==
    /\ probe.fn = "normalize"
    /\ ~probe.done
    /\ LET out == normalize_value_for_comparison(probe.in)
       IN probe' = [probe EXCEPT !.out = out,
                                 !.again = normalize_value_for_comparison(out),
                                 !.done = TRUE]
    /\ UNCHANGED EngineVars

SpecNormalize == InitNormalize /\ [][ProbeNormalize]_vars

InitCell ==
    /\ EngineIdle
    /\ \E t_val \in ProbeValues, o_val \in CompareValues,
          t_fmt \in ProbeFormats, o_fmt \in ProbeFormats, r \in {HeaderRow, HeaderRow + 1} :
          probe = [fn |-> "cell", t_val |-> t_val, o_val |-> o_val,
                   t_fmt |-> t_fmt, o_fmt |-> o_fmt, r |-> r,
                   recs |-> <<>>, done |-> FALSE]

\* one iteration of the loops of lines 83-108 on the cell of column 1, row r
ProbeCell ==
    /\ probe.fn = "cell"
    /\ ~probe.done
    /\ probe' = [probe EXCEPT
                    !.recs = IF SkipsCell(probe.t_val, probe.o_val) THEN <<>>
                             ELSE <<CellRecord("Data", <<NoneV>>, 1, probe.r, probe.t_val,
                                               probe.o_val, probe.t_fmt, probe.o_fmt)>>,
                    !.done = TRUE]
    /\ UNCHANGED EngineVars

SpecCell == InitCell /\ [][ProbeCell]_vars

\* the pieces format strings are made of
FormatTokens ==
    { <<"_", "(">>, <<"*">>, <<")">>, <<"y", "y">>, <<"M", "M">>, <<"d">>, <<"%">>,
      <<"$">>, <<"U+20AC">>, <<"U+00A3">>, <<"U+00A5">>, <<"U+20B9">>,
      <<"U+00E2", "U+201A", "U+00AC">>, <<"U+00C2", "U+00A3">>,
      <<"0">>, <<"#">>, <<"@">>, <<"G", "e", "n", "e", "r", "a", "l">>, <<"h">> }

RECURSIVE Flatten(_)
Flatten(ts) == IF ts = <<>> THEN <<>> ELSE Head(ts) \o Flatten(Tail(ts))

FormatStrings == {Flatten(ts) : ts \in SeqsUpTo(FormatTokens, MaxTokens)}

InitFormat ==
    /\ EngineIdle
    /\ \E f \in FormatStrings : probe = [fn |-> "format", in |-> f, out |-> "", done |-> FALSE]

ProbeFormat ==
    /\ probe.fn = "format"
    /\ ~probe.done
    /\ probe' = [probe EXCEPT !.out = get_excel_format_type(probe.in), !.done = TRUE]
    /\ UNCHANGED EngineVars

SpecFormat == InitFormat /\ [][ProbeFormat]_vars

-----------------------------------------------------------------------------
(* The claims *)

CurRecords == IF cur.name \in DOMAIN results THEN results[cur.name] ELSE <<>>

CoordsOf(recs) == {<<recs[i].col, recs[i].row>> : i \in 1..Len(recs)}

\* C1: no record exists for a coordinate whose template cell is null or blank
\* (empty or whitespace only), in a sheet the output has and in one it lacks
C1_NoRecordForBlankTemplateCell ==
    /\ CoordsOf(CurRecords) \subseteq cur.nonblank
    /\ cur.nonblank \subseteq cur.seen

\* a sheet present in the output, scanned to its end, whose row-3 cell of column
\* 1 is whitespace only and has no record, while another cell of it has one
C1_Witness ==
    /\ pc = "loop"
    /\ cur.name # ""
    /\ ~cur.missing
    /\ ScanOver(cur)
    /\ cur.num_rows > HeaderRow
    /\ cur.headers[1] = StrV(<<" ">>)
    /\ <<1, HeaderRow>> \notin CoordsOf(CurRecords)
    /\ <<1, HeaderRow + 1>> \in CoordsOf(CurRecords)

\* C2: a sheet whose processing failed after records were appended for it is
\* not in the result, and every sheet of the template that did not fail is in
\* it once the loop is over
C2_FailedSheetDropped ==
    /\ \A s \in DOMAIN failed : failed[s] > 0 => s \notin DOMAIN results
    /\ (pc = "loop" /\ todo = <<>>) =>
          \A i \in 1..Len(sheets) :
              sheets[i] \notin DOMAIN failed => sheets[i] \in DOMAIN results

CompareRange(sh) == (1..sh.num_cols) \X (HeaderRow..sh.num_rows)

\* C3: a sheet the output lacks is in the result; every non-blank template cell
\* read has exactly one record, Wrong/Wrong, marked sheet missing; and when the
\* scan is over every cell of columns 1..max column, rows 3..max row was read
C3_MissingSheetRecords ==
    (cur.name # "" /\ cur.missing) =>
        /\ cur.name \in DOMAIN results
        /\ ScanOver(cur) => cur.seen = CompareRange(cur)
        /\ CoordsOf(CurRecords) = cur.nonblank
        /\ Len(CurRecords) = Cardinality(cur.nonblank)
        /\ \A i \in 1..Len(CurRecords) :
              LET rec == CurRecords[i]
              IN /\ rec.dtype_res = "Wrong"
                 /\ rec.val_res = "Wrong"
                 /\ rec.TEST = SheetMissingText
                 /\ rec.dtype_reason = <<"Sheet not in output", cur.name>>
                 /\ rec.val_reason = <<"Sheet not in output", cur.name>>

\* a missing sheet scanned to its end with a header-row record, a data-row
\* record and a blank cell that was passed over
C3_Witness ==
    /\ pc = "loop"
    /\ cur.name # ""
    /\ cur.missing
    /\ ScanOver(cur)
    /\ <<1, HeaderRow>> \in CoordsOf(CurRecords)
    /\ <<1, HeaderRow + 1>> \in CoordsOf(CurRecords)
    /\ Len(CurRecords) < CellsInRange(cur.num_cols, cur.num_rows)

\* C4 as stated: every record of row 3 has data-type result N/A, whether or not
\* the sheet is in the output
C4_HeaderRowAlwaysNA ==
    \A rec \in Rows(results) : rec.row = HeaderRow => rec.dtype_res = "N/A"

\* C4 as amended: a record of row 3 has data-type result N/A when the sheet is
\* in the output, whatever the two formats, and Wrong when the sheet is missing
C4_HeaderRowNAWhenSheetPresent ==
    \A i \in 1..Len(CurRecords) :
        CurRecords[i].row = HeaderRow =>
            CurRecords[i].dtype_res = IF cur.missing THEN "Wrong" ELSE "N/A"

\* a row-3 record of a sheet the output has, next to a data-row record whose
\* data types were compared
C4_Witness ==
    /\ ~cur.missing
    /\ \E i, j \in 1..Len(CurRecords) :
          /\ CurRecords[i].row = HeaderRow
          /\ CurRecords[i].dtype_res = "N/A"
          /\ CurRecords[j].row > HeaderRow
          /\ CurRecords[j].dtype_res = "Wrong"

\* the rule table of the claim, with the five currency signs themselves
ClaimedFormatType(number_format) ==
    LET fmt == Lower(number_format)
    IN IF number_format = <<>> THEN "General"
       ELSE IF Contains(fmt, <<"_", "(">>) /\ Contains(fmt, <<"*">>) /\ Contains(fmt, <<")">>)
            THEN "Accounting"
       ELSE IF Contains(fmt, <<"y", "y">>) \/ Contains(fmt, <<"m", "m">>)
                  \/ Contains(fmt, <<"d", "d">>) THEN "Date"
       ELSE IF Contains(fmt, <<"%">>) THEN "Percentage"
       ELSE IF \E sign \in {"$", "U+20AC", "U+00A3", "U+00A5", "U+20B9"} :
                  Contains(fmt, <<sign>>) THEN "Currency"
       ELSE IF Contains(fmt, <<"0">>) \/ Contains(fmt, <<"#">>) THEN "Numeric"
       ELSE IF fmt = <<"@">> THEN "Text"
       ELSE IF fmt = <<"g", "e", "n", "e", "r", "a", "l">> THEN "General"
       ELSE "Other"

\* C5: get_excel_format_type returns the tag of the first matching rule of the
\* table, a format with any of the five currency signs being Currency
C5_FirstMatchingRule ==
    (probe.fn = "format" /\ probe.done) => probe.out = ClaimedFormatType(probe.in)

\* C6: a click on Run Validation with a workbook that cannot be loaded leaves
\* the session's stored results and its ran flag as they were
C6_LoadFailureKeepsSession == [][LoadFailure => session' = session]_vars

\* C7: a record of a data row in a column whose row-3 header is empty carries
\* the label Col_<column index>
C7_SyntheticFieldLabel ==
    \A i \in 1..Len(CurRecords) :
        LET rec == CurRecords[i]
        IN (rec.row > HeaderRow /\ cur.headers[rec.col] = NoneV) => rec.FIELD = ColLabel(rec.col)

\* C8: for a template cell that gets a record, the value result is Correct
\* exactly when the two normalised values are equal, whatever the two formats;
\* "5", "5.0", " 5 ", 5 and 5.0 are Correct against each other
C8_ValueResult ==
    (probe.fn = "cell" /\ probe.done /\ probe.recs # <<>>) =>
        /\ probe.recs[1].val_res \in {"Correct", "Wrong"}
        /\ probe.recs[1].val_res = "Correct" <=>
              PyEq(normalize_value_for_comparison(probe.t_val),
                   normalize_value_for_comparison(probe.o_val))
        /\ (probe.t_val \in FiveForms /\ probe.o_val \in FiveForms) =>
              probe.recs[1].val_res = "Correct"

\* the text " 5 " against the number 5.0, under two different formats
C8_Witness ==
    /\ probe.fn = "cell"
    /\ probe.done
    /\ probe.t_val = StrV(<<" ", "5", " ">>)
    /\ probe.o_val = FloatV(5, 0)
    /\ probe.t_fmt # probe.o_fmt
    /\ probe.recs # <<>>
    /\ probe.recs[1].val_res = "Correct"

Before(a, b) == a.col < b.col \/ (a.col = b.col /\ a.row < b.row)

ColumnMajor(recs) == \A i, j \in 1..Len(recs) : i < j => Before(recs[i], recs[j])

IsPrefix(a, b) == Len(a) <= Len(b) /\ SubSeq(b, 1, Len(a)) = a

\* C9: the records of a sheet are in column-major order of their cells, hence
\* no cell twice, and during a run a sheet's records are only appended to
C9_ColumnMajorAppendOnly ==
    /\ [](\A s \in DOMAIN results : ColumnMajor(results[s]))
    /\ [][(pc # "idle" /\ pc' # "idle") =>
            \A s \in DOMAIN results :
                s \in DOMAIN results' /\ IsPrefix(results[s], results'[s])]_vars

\* a sheet with records in two columns and two rows, the second row of column 1
\* before the first row of column 2
C9_Witness ==
    \E i, j \in 1..Len(CurRecords) :
        /\ i < j
        /\ CurRecords[i].col = 1 /\ CurRecords[i].row = HeaderRow + 1
        /\ CurRecords[j].col = 2 /\ CurRecords[j].row = HeaderRow

HasUpper(s) == \E i \in 1..Len(s) : LowerChar(s[i]) # s[i]

HasSpace(s) == \E i \in 1..Len(s) : IsSpace(s[i])

\* C10: normalising twice gives what normalising once gives; a value that is
\* not text is returned as it is; a text that is no number is returned in lower
\* case without any whitespace
C10_Idempotent ==
    (probe.fn = "normalize" /\ probe.done) =>
        /\ PyEq(probe.again, probe.out)
        /\ probe.in.t # "str" => probe.out = probe.in
        /\ (probe.in.t = "str" /\ probe.out.t = "str") =>
              /\ probe.out.s = RemoveWhitespace(Lower(probe.in.s))
              /\ ~HasUpper(probe.out.s)
              /\ ~HasSpace(probe.out.s)

\* a text with an upper-case letter and an inner space that is no number
C10_Witness ==
    /\ probe.fn = "normalize"
    /\ probe.done
    /\ probe.in = StrV(<<"A", " ", "5">>)
    /\ probe.out = StrV(<<"a", "5">>)
    /\ probe.again = probe.out

====
